---- MODULE Spec2Model ----
(***************************************************************************)
(* embassy-net UDP socket adapter (src/embassy-net/src/udp.rs).            *)
(*                                                                         *)
(* The shared engine context (SocketStack) holds the socket pool and the   *)
(* wake signal; every UdpSocket adapter owns one handle into the pool.     *)
(* The protocol engine (smoltcp) and SocketStack::get_local_port are not   *)
(* part of the sources at hand: their primitives are modelled from the     *)
(* specification (sections 3, 4 and 6).                                    *)
(***************************************************************************)
EXTENDS Naturals, Integers, Sequences, FiniteSets, TLC

\* ------------------------------------------------------------------ bounds
NumAdapters == 2        \* adapters (and pool slots) that may be alive at once
RxCap == 2              \* inbound buffer capacity, in datagrams
TxCap == 2              \* outbound buffer capacity, in datagrams
NumFuts == 1            \* operations one adapter may have suspended at once
MaxInFlight == 2        \* inbound datagrams waiting in all buffers together
NumSharers == 2         \* tasks that use one adapter at once (SharedSpec)

\* Ephemeral port range of the dynamic port allocator.
LocalPortMin == 2
LocalPortMax == 3

Adapters == 1..NumAdapters
Handles == 1..NumAdapters
Futs == 1..NumFuts
SharedFuts == 1..NumSharers
NoHandle == 0
NoWaker == <<0, 0>>

EphemeralPorts == LocalPortMin..LocalPortMax
\* Ports a caller passes to bind: 0 (any) and a fixed port, here one of the range.
BindPorts == {0, LocalPortMin}
Unspecified == "unspec"
\* Lengths of the buffer a caller passes to recv_from.
BufLens == {1, 2}

NoDgram == [ep |-> "none", len |-> 0]
\* Inbound datagrams: sender endpoint and payload length.
RxInputs == {[ep |-> "r1", len |-> 1], [ep |-> "r2", len |-> 2]}
\* send_to arguments: payload length and remote endpoint.
SendInputs == {[ep |-> "r1", len |-> 2], [ep |-> Unspecified, len |-> 1]}

VARIABLES
    sockets,    \* s.sockets: handle -> socket state (or an empty slot)
    handle,     \* UdpSocket.handle of each adapter (NoHandle: not constructed)
    futs,       \* the recv_from / send_to futures of each adapter
    access,     \* references to the shared context that are still alive
    peak,       \* most references to the shared context alive at one instant
    last        \* what the last step did and returned

vars == <<sockets, handle, futs, access, peak, last>>

\* --------------------------------------------------------------- helpers
EmptySlot ==
    [live |-> FALSE, port |-> 0, rx |-> <<>>, tx |-> <<>>, rxWaker |-> NoWaker,
     txWaker |-> NoWaker]
IdleFut == [kind |-> "idle", len |-> 0, ep |-> "none", woken |-> FALSE]
NoQuery == [endpoint |-> 0, is_open |-> FALSE, may_send |-> FALSE, may_recv |-> FALSE]

Min(x, y) == IF x <= y THEN x ELSE y

\* The record of a step: the operation, the adapter and handle it ran on, what it
\* returned (res; d and n for recv_from), whether it signalled the wake
\* notification, and what it was called with and on (first: a first poll; buf:
\* recv_from's buffer length; d: send_to's datagram; port, zero: bind's resolved
\* port and whether port zero was passed; open, had: the socket was open / had
\* inbound datagrams queued before the step; reuse: the step directly follows the
\* close of the same adapter (bind) or the removal of a socket with queued
\* datagrams from the same slot (new), or a later poll of the same future that
\* returned Pending (abandon)).
Ev(op, a) ==
    [op |-> op, a |-> a, h |-> NoHandle, f |-> 0, res |-> "none", wake |-> FALSE,
     first |-> FALSE, d |-> NoDgram, n |-> 0, buf |-> 0, port |-> 0, zero |-> FALSE,
     open |-> FALSE, had |-> FALSE, reuse |-> FALSE, q |-> NoQuery]

\* Inbound datagrams queued in the pool.
InFlight == LET RECURSIVE Sum(_)
                Sum(S) == IF S = {} THEN 0
                          ELSE LET h == CHOOSE x \in S : TRUE
                               IN  Len(sockets[h].rx) + Sum(S \ {h})
            IN  Sum(Handles)

\* No future borrows adapter a: what a call taking &mut self requires.
AllIdle(a) == \A f \in DOMAIN futs[a] : futs[a][f].kind = "idle"


\* ------------------------------------------------- protocol engine (smoltcp)
\* Faulty construction: the inbound buffer is not reset and still holds a datagram.
UdpSocketNewStale ==
    [live |-> TRUE, port |-> 0, rx |-> <<[ep |-> "r1", len |-> 1]>>, tx |-> <<>>,
     rxWaker |-> NoWaker, txWaker |-> NoWaker]

\* udp::Socket::new over fresh packet buffers: unbound, both buffers empty.
UdpSocketNew ==
    [live |-> TRUE, port |-> 0, rx |-> <<>>, tx |-> <<>>, rxWaker |-> NoWaker,
     txWaker |-> NoWaker]

IsOpen(s) == s.port # 0
CanSend(s) == Len(s.tx) < TxCap
CanRecv(s) == Len(s.rx) > 0

\* udp::Socket::bind: port zero cannot be bound, an open socket cannot be rebound.
SocketBind(s, port) ==
    IF port = 0 THEN [res |-> "Unaddressable", s |-> s]
    ELSE IF IsOpen(s) THEN [res |-> "InvalidState", s |-> s]
    ELSE [res |-> "Ok",
          s |-> [s EXCEPT !.port = port, !.rxWaker = NoWaker, !.txWaker = NoWaker]]

\* udp::Socket::close: the endpoint is cleared and both buffers are reset.
SocketClose(s) ==
    [s EXCEPT !.port = 0, !.rx = <<>>, !.tx = <<>>, !.rxWaker = NoWaker,
              !.txWaker = NoWaker]

\* udp::Socket::send_slice: a socket that is not bound, or an unspecified remote
\* endpoint, is unaddressable; otherwise the whole datagram is queued or none of it.
SendSlice(s, len, ep) ==
    IF ~IsOpen(s) \/ ep = Unspecified THEN [res |-> "Unaddressable", s |-> s]
    ELSE IF Len(s.tx) >= TxCap THEN [res |-> "BufferFull", s |-> s]
    ELSE [res |-> "Ok", s |-> [s EXCEPT !.tx = Append(@, [ep |-> ep, len |-> len])]]

\* udp::Socket::recv_slice: the oldest datagram, copied into a buffer of buflen bytes.
RecvSlice(s, buflen) ==
    IF s.rx = <<>> THEN [res |-> "Exhausted", s |-> s, d |-> NoDgram, n |-> 0]
    ELSE [res |-> "Ok", s |-> [s EXCEPT !.rx = Tail(@)], d |-> Head(s.rx),
          n |-> Min(buflen, Head(s.rx).len)]

\* udp::Socket::process: an incoming datagram is queued behind the ones already
\* there, or dropped when the buffer is full.
SocketProcess(s, d) ==
    IF Len(s.rx) < RxCap THEN [s EXCEPT !.rx = Append(@, d), !.rxWaker = NoWaker] ELSE s

\* udp::Socket::dispatch: the oldest outbound datagram leaves; the send waker is taken.
SocketDispatch(s) == [s EXCEPT !.tx = Tail(@), !.txWaker = NoWaker]

\* udp::Socket::register_recv_waker / register_send_waker: each socket keeps one
\* waker per direction; a newly registered waker takes the place of the old one.
RegisterRecvWaker(s, w) == [s EXCEPT !.rxWaker = w]
RegisterSendWaker(s, w) == [s EXCEPT !.txWaker = w]

\* SocketSet::add: the handles a new socket may get.
FreeHandles(ss) == {h \in Handles : ~ss[h].live}
\* SocketSet::remove
SocketsRemove(ss, h) == [ss EXCEPT ![h] = EmptySlot]

\* SocketStack::get_local_port: an unused port of the ephemeral range.
GetLocalPort(ss) == {p \in EphemeralPorts : \A h \in Handles : ss[h].port # p}

\* ------------------------------------------------------------ the adapter
\* Faulty guard: the reference to the context outlives the call.
ReleaseLate(acc, me) == acc

\* with / with_mut: the reference to the context dies when the call returns.
Release(acc, me) == acc \ {me}

\* Faulty with_mut: the driver is signalled only when the closure succeeded.
WakeOnOk(res) == res = "Ok"

\* Faulty with_mut: the driver is signalled only when the closure made progress.
WakeOnReady(res) == res # "Pending"

\* with_mut: s.waker.wake() is called after the closure, whatever it returned.
WithMutWake(res) == TRUE

\* One access to the shared context, from taking the reference to its release.
Guard(me) ==
    /\ access' = Release(access \cup {me}, me)
    /\ peak' = IF Cardinality(access \cup {me}) > peak
               THEN Cardinality(access \cup {me}) ELSE peak

\* Faulty bind: port zero always resolves to the first port of the range.
ResolvePortFirst(port, ss) == IF port = 0 THEN {LocalPortMin} ELSE {port}

\* bind: the port the socket is asked to bind.
ResolvePort(port, ss) == IF port = 0 THEN GetLocalPort(ss) ELSE {port}

\* Faulty bind: the engine's InvalidState is swallowed.
BindResultLenient(r) == IF r = "Unaddressable" THEN "NoRoute" ELSE "Ok"

\* bind: the engine's result as the adapter returns it.
BindResult(r) ==
    CASE r = "Ok" -> "Ok"
      [] r = "InvalidState" -> "InvalidState"
      [] r = "Unaddressable" -> "NoRoute"

\* Faulty recv_from: a queued datagram is not looked at; every poll suspends.
RecvPollSpin(r) == "Pending"

\* Faulty recv_from: an empty buffer is reported as an error.
RecvPollFail(r) == IF r = "Ok" THEN "Ok" ELSE "NoRoute"

\* recv_from's poll closure: the engine's result as a poll result.
RecvPoll(r) == IF r = "Ok" THEN "Ok" ELSE "Pending"

\* Faulty recv_from: the datagram behind the one returned is dequeued with it.
RecvClosureSkip(s, buflen) ==
    LET r == RecvSlice(s, buflen)
    IN  [res |-> RecvPoll(r.res),
         s |-> IF Len(r.s.rx) > 0 THEN [r.s EXCEPT !.rx = Tail(@)] ELSE r.s,
         d |-> r.d, n |-> r.n]

\* Faulty recv_from: the datagram is read but left in the buffer.
RecvClosurePeek(s, buflen) ==
    LET r == RecvSlice(s, buflen)
    IN  [res |-> RecvPoll(r.res), s |-> s, d |-> r.d, n |-> r.n]

\* recv_from's poll closure on the socket.
RecvClosure(s, buflen) ==
    LET r == RecvSlice(s, buflen)
    IN  [res |-> RecvPoll(r.res), s |-> r.s, d |-> r.d, n |-> r.n]

\* Faulty recv_from: the caller is left parked until somebody else wakes it.
RecvPendingParked == FALSE

\* recv_from, no data ready: cx.waker().wake_by_ref() marks the caller runnable.
RecvPendingWoken == TRUE

\* Faulty send_to: a full buffer is reported as an error instead of suspending.
SendPollFailFull(r) == IF r = "Ok" THEN "Ok" ELSE "NoRoute"

\* Faulty send_to: an unaddressable destination is retried instead of reported.
SendPollRetry(r) == IF r = "Ok" THEN "Ok" ELSE "Pending"

\* send_to's poll closure: the engine's result as a poll result.
SendPoll(r) ==
    CASE r = "Ok" -> "Ok"
      [] r = "BufferFull" -> "Pending"
      [] r = "Unaddressable" -> "NoRoute"

\* Faulty send_to: a suspending poll makes room by discarding the oldest datagram.
SendClosureEvict(s, len, ep, w) ==
    LET r == SendSlice(s, len, ep)
    IN  [res |-> SendPoll(r.res),
         s |-> IF r.res = "BufferFull"
               THEN RegisterSendWaker([r.s EXCEPT !.tx = Tail(@)], w) ELSE r.s]

\* Faulty send_to: the last byte of the payload is not handed to the engine.
SendClosureShort(s, len, ep, w) ==
    LET r == SendSlice(s, len - 1, ep)
    IN  [res |-> SendPoll(r.res),
         s |-> IF r.res = "BufferFull" THEN RegisterSendWaker(r.s, w) ELSE r.s]

\* send_to's poll closure on the socket; w is the caller's waker.
SendClosure(s, len, ep, w) ==
    LET r == SendSlice(s, len, ep)
    IN  [res |-> SendPoll(r.res),
         s |-> IF r.res = "BufferFull" THEN RegisterSendWaker(r.s, w) ELSE r.s]

\* Faulty close: the socket is left as it is.
CloseNothing(s) == s

\* close's closure on the socket.
CloseClosure(s) == SocketClose(s)

\* Faulty drop: only a socket that is not open is removed.
DropRemoveIfClosed(ss, h) == IF IsOpen(ss[h]) THEN ss ELSE SocketsRemove(ss, h)

\* drop: the handle is removed from the pool.
DropRemove(ss, h) == SocketsRemove(ss, h)

Init ==
    /\ sockets = [h \in Handles |-> EmptySlot]
    /\ handle = [a \in Adapters |-> NoHandle]
    /\ futs = [a \in Adapters |-> [f \in Futs |-> IdleFut]]
    /\ access = {}
    /\ peak = 0
    /\ last = Ev("init", 0)

\* UdpSocket::new
New(a) ==
    /\ handle[a] = NoHandle
    /\ \E h \in FreeHandles(sockets) :
        /\ sockets' = [sockets EXCEPT ![h] = UdpSocketNew]
        /\ handle' = [handle EXCEPT ![a] = h]
        /\ last' = [Ev("new", a) EXCEPT !.h = h, !.res = "Ok",
                       !.reuse = (last.op = "drop" /\ last.h = h /\ last.had)]
    /\ Guard(<<a, 0>>)
    /\ UNCHANGED futs

\* UdpSocket::bind
Bind(a, port) ==
    /\ handle[a] # NoHandle
    /\ AllIdle(a)
    /\ \E p \in ResolvePort(port, sockets) :
        LET h == handle[a]
            r == SocketBind(sockets[h], p)
            res == BindResult(r.res)
        IN  /\ sockets' = [sockets EXCEPT ![h] = r.s]
            /\ last' = [Ev("bind", a) EXCEPT !.h = h, !.res = res,
                           !.wake = WithMutWake(res), !.port = p, !.zero = (port = 0),
                           !.open = IsOpen(sockets[h]),
                           !.reuse = (last.op = "close" /\ last.a = a /\ last.open)]
    /\ Guard(<<a, 0>>)
    /\ UNCHANGED <<handle, futs>>

\* UdpSocket::close
Close(a) ==
    /\ handle[a] # NoHandle
    /\ AllIdle(a)
    /\ LET h == handle[a]
       IN  /\ sockets' = [sockets EXCEPT ![h] = CloseClosure(@)]
           /\ last' = [Ev("close", a) EXCEPT !.h = h, !.res = "Ok",
                          !.wake = WithMutWake("Ok"), !.open = IsOpen(sockets[h]),
                          !.had = CanRecv(sockets[h])]
    /\ Guard(<<a, 0>>)
    /\ UNCHANGED <<handle, futs>>

\* Drop for UdpSocket
Drop(a) ==
    /\ handle[a] # NoHandle
    /\ AllIdle(a)
    /\ LET h == handle[a]
       IN  /\ sockets' = DropRemove(sockets, h)
           /\ handle' = [handle EXCEPT ![a] = NoHandle]
           /\ last' = [Ev("drop", a) EXCEPT !.h = h, !.res = "Ok",
                          !.open = IsOpen(sockets[h]), !.had = CanRecv(sockets[h])]
    /\ Guard(<<a, 0>>)
    /\ UNCHANGED futs

\* recv_from: one poll of the future.
RecvFromPoll(a, f, buflen, first) ==
    /\ handle[a] # NoHandle
    /\ LET h == handle[a]
           r == RecvClosure(sockets[h], buflen)
       IN  /\ sockets' = [sockets EXCEPT ![h] = r.s]
           /\ futs' = [futs EXCEPT ![a][f] =
                          IF r.res = "Pending"
                          THEN [kind |-> "recv", len |-> buflen, ep |-> "none",
                                woken |-> RecvPendingWoken]
                          ELSE IdleFut]
           /\ last' = [Ev("recv", a) EXCEPT !.h = h, !.f = f, !.res = r.res,
                          !.wake = WithMutWake(r.res), !.first = first,
                          !.d = r.d, !.n = r.n, !.buf = buflen,
                          !.open = IsOpen(sockets[h])]
    /\ Guard(<<a, f>>)
    /\ UNCHANGED handle

\* recv_from is called and polled for the first time.
RecvFromStart(a, f) ==
    /\ futs[a][f].kind = "idle"
    /\ \E buflen \in BufLens : RecvFromPoll(a, f, buflen, TRUE)

\* A suspended recv_from is polled again.
RecvFromRepoll(a, f) ==
    /\ futs[a][f].kind = "recv"
    /\ RecvFromPoll(a, f, futs[a][f].len, FALSE)

\* send_to: one poll of the future.
SendToPoll(a, f, len, ep, first) ==
    /\ handle[a] # NoHandle
    /\ LET h == handle[a]
           r == SendClosure(sockets[h], len, ep, <<a, f>>)
       IN  /\ sockets' = [sockets EXCEPT ![h] = r.s]
           /\ futs' = [futs EXCEPT ![a][f] =
                          IF r.res = "Pending"
                          THEN [kind |-> "send", len |-> len, ep |-> ep, woken |-> FALSE]
                          ELSE IdleFut]
           /\ last' = [Ev("send", a) EXCEPT !.h = h, !.f = f, !.res = r.res,
                          !.wake = WithMutWake(r.res), !.first = first,
                          !.d = [ep |-> ep, len |-> len],
                          !.open = IsOpen(sockets[h])]
    /\ Guard(<<a, f>>)
    /\ UNCHANGED handle

\* send_to is called and polled for the first time.
SendToStart(a, f) ==
    /\ futs[a][f].kind = "idle"
    /\ \E inp \in SendInputs : SendToPoll(a, f, inp.len, inp.ep, TRUE)

\* A suspended send_to is polled again.
SendToRepoll(a, f) ==
    /\ futs[a][f].kind = "send"
    /\ SendToPoll(a, f, futs[a][f].len, futs[a][f].ep, FALSE)

\* The caller drops a suspended future: it is never polled again.
Abandon(a, f) ==
    /\ futs[a][f].kind # "idle"
    /\ futs' = [futs EXCEPT ![a][f] = IdleFut]
    /\ last' = [Ev("abandon", a) EXCEPT !.h = handle[a], !.f = f,
                   !.reuse = (/\ last.op \in {"recv", "send"} /\ ~last.first
                              /\ last.a = a /\ last.f = f)]
    /\ UNCHANGED <<sockets, handle, access, peak>>

\* Faulty queries: they go through with_mut, which signals the wake notification.
QueryWithMut(a) ==
    /\ handle[a] # NoHandle
    /\ LET s == sockets[handle[a]]
       IN  last' = [Ev("query", a) EXCEPT !.h = handle[a], !.res = "Ok",
                       !.wake = WithMutWake("Ok"),
                       !.reuse = (last.op = "close" /\ last.a = a /\ last.open),
                       !.q = [endpoint |-> s.port, is_open |-> IsOpen(s),
                              may_send |-> CanSend(s), may_recv |-> CanRecv(s)]]
    /\ Guard(<<a, 0>>)
    /\ UNCHANGED <<sockets, handle, futs>>

\* endpoint(), is_open(), may_send(), may_recv()
Query(a) ==
    /\ handle[a] # NoHandle
    /\ LET s == sockets[handle[a]]
       IN  last' = [Ev("query", a) EXCEPT !.h = handle[a], !.res = "Ok",
                       !.reuse = (last.op = "close" /\ last.a = a /\ last.open),
                       !.q = [endpoint |-> s.port, is_open |-> IsOpen(s),
                              may_send |-> CanSend(s), may_recv |-> CanRecv(s)]]
    /\ Guard(<<a, 0>>)
    /\ UNCHANGED <<sockets, handle, futs>>

\* The driver runs the engine: a datagram for an open socket comes in.
DriverIngress(h, inp) ==
    /\ sockets[h].live
    /\ IsOpen(sockets[h])
    /\ InFlight < MaxInFlight
    /\ sockets' = [sockets EXCEPT ![h] = SocketProcess(@, inp)]
    /\ last' = [Ev("ingress", 0) EXCEPT !.h = h, !.d = inp]
    /\ Guard(<<0, 0>>)
    /\ UNCHANGED <<handle, futs>>

\* The driver runs the engine: the oldest outbound datagram of a socket goes out
\* and the task whose send waker was registered, if any, is woken.
DriverEgress(h) ==
    /\ sockets[h].live
    /\ sockets[h].tx # <<>>
    /\ LET w == sockets[h].txWaker
       IN  /\ sockets' = [sockets EXCEPT ![h] = SocketDispatch(@)]
           /\ futs' = IF w # NoWaker /\ futs[w[1]][w[2]].kind = "send"
                      THEN [futs EXCEPT ![w[1]][w[2]].woken = TRUE]
                      ELSE futs
    /\ last' = [Ev("egress", 0) EXCEPT !.h = h]
    /\ Guard(<<0, 0>>)
    /\ UNCHANGED handle

Next ==
    \/ \E a \in Adapters : New(a)
    \/ \E a \in Adapters, p \in BindPorts : Bind(a, p)
    \/ \E a \in Adapters : Close(a)
    \/ \E a \in Adapters : Drop(a)
    \/ \E a \in Adapters, f \in Futs : RecvFromStart(a, f)
    \/ \E a \in Adapters, f \in Futs : RecvFromRepoll(a, f)
    \/ \E a \in Adapters, f \in Futs : SendToStart(a, f)
    \/ \E a \in Adapters, f \in Futs : SendToRepoll(a, f)
    \/ \E a \in Adapters, f \in Futs : Abandon(a, f)
    \/ \E a \in Adapters : Query(a)
    \/ \E h \in Handles, inp \in RxInputs : DriverIngress(h, inp)
    \/ \E h \in Handles : DriverEgress(h)

Spec == Init /\ [][Next]_vars

\* One adapter that several tasks use at once: recv_from and send_to take &self,
\* so every task may have an operation of its own suspended on the one socket.
SharedInit ==
    /\ sockets = [h \in Handles |-> EmptySlot]
    /\ handle = [a \in Adapters |-> NoHandle]
    /\ futs = [a \in Adapters |-> [f \in SharedFuts |-> IdleFut]]
    /\ access = {}
    /\ peak = 0
    /\ last = Ev("init", 0)

SharedNext ==
    \/ New(1)
    \/ \E p \in BindPorts : Bind(1, p)
    \/ Close(1)
    \/ Drop(1)
    \/ \E f \in SharedFuts : RecvFromStart(1, f)
    \/ \E f \in SharedFuts : RecvFromRepoll(1, f)
    \/ \E f \in SharedFuts : SendToStart(1, f)
    \/ \E f \in SharedFuts : SendToRepoll(1, f)
    \/ \E f \in SharedFuts : Abandon(1, f)
    \/ Query(1)
    \/ \E h \in Handles, inp \in RxInputs : DriverIngress(h, inp)
    \/ \E h \in Handles : DriverEgress(h)

SharedSpec == SharedInit /\ [][SharedNext]_vars

\* The executor polls a task that was woken: a suspended operation whose caller
\* is marked runnable is eventually polled again, unless it is abandoned first.
ExecutorFairness ==
    \A f \in SharedFuts :
        /\ WF_vars(futs[1][f].woken /\ RecvFromRepoll(1, f))
        /\ WF_vars(futs[1][f].woken /\ SendToRepoll(1, f))

SharedFairSpec == SharedInit /\ [][SharedNext]_vars /\ ExecutorFairness


\* ------------------------------------------------------------ properties
WithMutOps == {"bind", "close", "recv", "send"}

\* C1, as amended: a completed recv_from returns the oldest datagram queued in its
\* socket and removes exactly that one, with the endpoint that sent it and the
\* number of bytes copied: the datagram's length, or the caller's buffer length
\* when that is shorter. An inbound buffer changes in no other way than by the
\* driver appending one datagram at its end, by a completed recv_from, or by
\* close/drop emptying it: datagrams are neither reordered nor coalesced.
C1_RecvFifo ==
    [][ /\ (last'.op = "recv" /\ last'.res = "Ok") =>
              LET rx == sockets[last'.h].rx
              IN  /\ rx # <<>>
                  /\ last'.d = Head(rx)
                  /\ last'.n = Min(last'.buf, Head(rx).len)
                  /\ sockets'[last'.h].rx = Tail(rx)
        /\ \A h \in Handles :
              sockets'[h].rx # sockets[h].rx =>
                 \/ last'.op = "recv" /\ last'.res = "Ok" /\ last'.h = h
                 \/ /\ last'.op = "ingress" /\ last'.h = h
                    /\ sockets'[h].rx = Append(sockets[h].rx, last'.d)
                 \/ /\ last'.op \in {"close", "drop"} /\ last'.h = h
                    /\ sockets'[h].rx = <<>>
      ]_vars

\* C1 as stated: every completed recv_from returns the oldest datagram with the
\* endpoint that sent it and its byte length.
C1_Original ==
    [][ (last'.op = "recv" /\ last'.res = "Ok") =>
            LET rx == sockets[last'.h].rx
            IN  /\ rx # <<>>
                /\ last'.d = Head(rx)
                /\ last'.n = Head(rx).len
                /\ sockets'[last'.h].rx = Tail(rx)
      ]_vars

\* Two different datagrams were queued; recv_from returned the older one, cut to
\* the caller's shorter buffer, and the newer one is still queued.
C1_Witness ==
    /\ last.op = "recv" /\ last.res = "Ok"
    /\ sockets[last.h].rx # <<>>
    /\ sockets[last.h].rx[1] # last.d
    /\ last.n = last.buf /\ last.buf < last.d.len

C3_UnroutableFailsAtOnce ==
    [][ (last'.op = "send" /\ last'.d.ep = Unspecified)
          => /\ last'.res = "NoRoute"
             /\ last'.first
             /\ sockets' = sockets
             /\ futs'[last'.a][last'.f] = IdleFut
      ]_vars

\* An unaddressable send_to on a socket whose outbound buffer is full.
C3_Witness ==
    /\ last.op = "send" /\ last.d.ep = Unspecified /\ last.res = "NoRoute"
    /\ last.open
    /\ Len(sockets[last.h].tx) = TxCap

\* C4: bind returns Ok, InvalidState or NoRoute and nothing else, and bind on a
\* socket that is already open returns InvalidState and leaves the pool unchanged.
C4_BindResults ==
    [][ last'.op = "bind" =>
          /\ last'.res \in {"Ok", "InvalidState", "NoRoute"}
          /\ IsOpen(sockets[last'.h]) =>
                (last'.res = "InvalidState" /\ sockets' = sockets)
      ]_vars

\* The same explicit port is bound a second time on the same socket.
C4_Witness ==
    /\ last.op = "bind" /\ last.res = "InvalidState" /\ ~last.zero
    /\ sockets[last.h].port = last.port

\* C5: the port a successful port-zero bind assigns is a port of the ephemeral
\* range that no other socket of the pool holds at that moment; two port-zero
\* binds on two sockets, one directly after the other, get different ports.
C5_DynamicPortUnused ==
    [][ (last'.op = "bind" /\ last'.zero /\ last'.res = "Ok") =>
          /\ sockets'[last'.h].port = last'.port
          /\ last'.port \in EphemeralPorts
          /\ \A g \in Handles \ {last'.h} : sockets'[g].port # last'.port
          /\ (last.op = "bind" /\ last.zero /\ last.res = "Ok" /\ last.a # last'.a)
                => last'.port # last.port
      ]_vars

\* A port-zero bind succeeded while another socket holds a port of the range.
C5_Witness ==
    /\ last.op = "bind" /\ last.zero /\ last.res = "Ok"
    /\ \E g \in Handles \ {last.h} : sockets[g].port \in EphemeralPorts

\* C6: after close() the socket is still in the pool under the adapter's handle
\* and is not open, is_open() reports false, and bind on a socket that is not
\* open succeeds, on the same handle.
C6_CloseThenRebind ==
    /\ [](last.op = "close" =>
            /\ handle[last.a] = last.h
            /\ sockets[last.h].live
            /\ ~IsOpen(sockets[last.h]))
    /\ []((last.op = "query" /\ last.reuse) => ~last.q.is_open)
    /\ [][ (last'.op = "bind" /\ ~IsOpen(sockets[last'.h])) =>
              /\ last'.res = "Ok"
              /\ handle' = handle
              /\ sockets'[last'.h].live
              /\ IsOpen(sockets'[last'.h])
         ]_vars

\* bind succeeded directly after close() on the same adapter, which was bound.
C6_Witness == last.op = "bind" /\ last.reuse /\ last.res = "Ok"

\* C7: after a drop the adapter's handle is not in the pool, whatever state the
\* socket was in; the handles of the live adapters are in the pool, each owned
\* by one adapter, and the pool holds no socket without an adapter.
C7_DropRemoves ==
    /\ last.op = "drop" => (~sockets[last.h].live /\ handle[last.a] = NoHandle)
    /\ \A b \in Adapters : handle[b] # NoHandle => sockets[handle[b]].live
    /\ \A b, c \in Adapters : (b # c /\ handle[b] # NoHandle) => handle[b] # handle[c]
    /\ \A h \in Handles : sockets[h].live => \E b \in Adapters : handle[b] = h

\* A bound socket with queued datagrams was dropped while another adapter lives.
C7_Witness ==
    /\ last.op = "drop" /\ last.open /\ last.had
    /\ \E b \in Adapters : handle[b] # NoHandle

\* C8: a new adapter's socket is unbound with both buffers empty, also in a slot
\* a destroyed socket left; a socket becomes open only by its own successful
\* bind, and an empty inbound buffer gets a datagram only from the driver.
C8_NewIsFresh ==
    /\ [](last.op = "new" =>
            /\ handle[last.a] = last.h
            /\ sockets[last.h].live
            /\ ~IsOpen(sockets[last.h])
            /\ sockets[last.h].rx = <<>>
            /\ sockets[last.h].tx = <<>>)
    /\ [][ \A h \in Handles :
              /\ (~IsOpen(sockets[h]) /\ IsOpen(sockets'[h])) =>
                    (last'.op = "bind" /\ last'.h = h /\ last'.res = "Ok")
              /\ (sockets[h].rx = <<>> /\ sockets'[h].rx # <<>>) =>
                    (last'.op = "ingress" /\ last'.h = h /\ IsOpen(sockets[h]))
         ]_vars

\* The new adapter got the slot from which a socket with queued datagrams was
\* just removed.
C8_Witness == last.op = "new" /\ last.reuse

\* C9: at most one reference to the shared context is alive at any instant, and
\* none is alive between two steps: in particular none is held by a suspended
\* recv_from or send_to.
C9_OneAccess ==
    /\ peak <= 1
    /\ access = {}
    /\ \A a \in Adapters, f \in Futs : futs[a][f].kind # "idle" => <<a, f>> \notin access

\* Operations of two sockets are suspended at once, after accesses were made.
C9_Witness ==
    /\ peak = 1
    /\ \E a, b \in Adapters :
          /\ a # b
          /\ \E f \in Futs : futs[a][f].kind = "recv"
          /\ \E f \in Futs : futs[b][f].kind = "send"

\* C10: every step made through with_mut signals the wake notification.
C10_WithMutWakes == last.op \in WithMutOps => last.wake

\* with_mut signalled the driver although the poll made no progress.
C10_Witness == last.op = "recv" /\ last.res = "Pending" /\ last.wake

\* C11: a send_to that finds the outbound buffer full registers its caller's
\* waker with the engine in that same poll, and when the driver dequeues an
\* outbound datagram of a socket, every send_to suspended on that socket is woken
\* (so that it is polled again and can complete).
C11_SendersResumed ==
    [][ /\ (last'.op = "send" /\ last'.res = "Pending") =>
              sockets'[last'.h].txWaker = <<last'.a, last'.f>>
        /\ last'.op = "egress" =>
              \A a \in Adapters : \A f \in DOMAIN futs[a] :
                 (handle[a] = last'.h /\ futs[a][f].kind = "send") => futs'[a][f].woken
      ]_vars

\* C12: a poll of recv_from returns Ok with a datagram's length and endpoint, or
\* Pending, and nothing else; it has completed exactly when it returned Ok.
C12_RecvNeverErrors ==
    last.op = "recv" =>
        /\ last.res \in {"Ok", "Pending"}
        /\ last.res = "Ok" => (last.d \in RxInputs /\ futs[last.a][last.f] = IdleFut)
        /\ last.res = "Pending" =>
              (last.d = NoDgram /\ futs[last.a][last.f].kind = "recv")

\* recv_from was polled on a socket that is not bound, where the engine has
\* nothing to return, and on a later poll again: it stays Pending.
C12_Witness ==
    /\ last.op = "recv" /\ last.res = "Pending" /\ ~last.open /\ ~last.first

\* C13: endpoint(), is_open(), may_send() and may_recv() leave the pool, the
\* handles and the suspended operations as they are and do not signal the wake
\* notification; what they report is the socket's state at the call.
C13_QueriesChangeNothing ==
    [][ last'.op = "query" =>
          /\ sockets' = sockets
          /\ handle' = handle
          /\ futs' = futs
          /\ ~last'.wake
          /\ LET s == sockets[last'.h]
             IN  last'.q = [endpoint |-> s.port, is_open |-> s.port # 0,
                            may_send |-> Len(s.tx) < TxCap, may_recv |-> s.rx # <<>>]
      ]_vars

\* The queries ran on a bound socket with a datagram queued in each direction
\* while an operation of the adapter was suspended.
C13_Witness ==
    /\ last.op = "query" /\ last.q.is_open /\ last.q.may_recv
    /\ sockets[last.h].rx # <<>> /\ sockets[last.h].tx # <<>>
    /\ \E f \in DOMAIN futs[last.a] : futs[last.a][f].kind # "idle"

\* C14: a poll of send_to that returns Ok has put exactly one datagram at the end
\* of the socket's outbound buffer, with the whole payload and the remote
\* endpoint given; a poll that returns Pending or NoRoute leaves the outbound
\* buffer as it was. No other socket's outbound buffer changes in either case.
C14_SendAllOrNothing ==
    [][ last'.op = "send" =>
          /\ last'.res \in {"Ok", "Pending", "NoRoute"}
          /\ last'.res = "Ok" =>
                sockets'[last'.h].tx = Append(sockets[last'.h].tx, last'.d)
          /\ last'.res # "Ok" => sockets'[last'.h].tx = sockets[last'.h].tx
          /\ \A g \in Handles \ {last'.h} : sockets'[g].tx = sockets[g].tx
      ]_vars

\* A send_to that was suspended on a full buffer completed on a later poll: the
\* buffer is full again, with its datagram last.
C14_Witness ==
    /\ last.op = "send" /\ last.res = "Ok" /\ ~last.first
    /\ Len(sockets[last.h].tx) = TxCap
    /\ sockets[last.h].tx[TxCap] = last.d

\* C15: a poll of recv_from or send_to that returns Pending leaves every
\* socket's binding, inbound buffer and outbound buffer as they were (of the
\* engine's state only the polled socket's registered send waker may change), and
\* abandoning the suspended operation changes nothing of the pool and handles:
\* the future is gone, the adapter is free for bind, close and drop again, and
\* what later operations find is what they would have found without it.
C15_AbandonLeavesNoTrace ==
    [][ /\ (last'.op \in {"recv", "send"} /\ last'.res = "Pending") =>
              /\ handle' = handle
              /\ \A h \in Handles :
                    /\ sockets'[h].live = sockets[h].live
                    /\ sockets'[h].port = sockets[h].port
                    /\ sockets'[h].rx = sockets[h].rx
                    /\ sockets'[h].tx = sockets[h].tx
                    /\ sockets'[h].rxWaker = sockets[h].rxWaker
                    /\ h # last'.h => sockets'[h] = sockets[h]
        /\ last'.op = "abandon" =>
              /\ sockets' = sockets
              /\ handle' = handle
              /\ futs[last'.a][last'.f].kind # "idle"
              /\ futs' = [futs EXCEPT ![last'.a][last'.f] = IdleFut]
      ]_vars

\* A send_to that was polled more than once on a full buffer was abandoned; the
\* socket is still bound, its buffers still hold their datagrams.
C15_Witness ==
    /\ last.op = "abandon" /\ last.reuse
    /\ sockets[last.h].txWaker = <<last.a, last.f>>
    /\ Len(sockets[last.h].tx) = TxCap
    /\ sockets[last.h].rx # <<>>

\* C16: a poll of recv_from that finds no datagram queued returns Pending, marks
\* its own caller runnable in that poll and changes nothing of the engine: no
\* receive waker is ever registered. A suspended recv_from is therefore always
\* runnable, and while it stays suspended it is polled again and again.
C16_RecvBusySpin ==
    /\ [][ (last'.op = "recv" /\ sockets[last'.h].rx = <<>>) =>
              /\ last'.res = "Pending"
              /\ sockets' = sockets
              /\ futs'[last'.a][last'.f].woken
         ]_vars
    /\ [](\A h \in Handles : sockets[h].rxWaker = NoWaker)
    /\ [](\A f \in SharedFuts : futs[1][f].kind = "recv" => futs[1][f].woken)
    /\ \A f \in SharedFuts :
          []<>(futs[1][f].kind # "recv" \/ (last.op = "recv" /\ last.f = f))

\* recv_from on a bound socket with nothing queued was polled again, returned
\* Pending again and is runnable again.
C16_Witness ==
    /\ last.op = "recv" /\ last.res = "Pending" /\ ~last.first /\ last.open
    /\ futs[last.a][last.f].woken
    /\ sockets[last.h].rxWaker = NoWaker

\* C17: a poll of recv_from returns Pending exactly when no inbound datagram is
\* queued in its socket; a poll of send_to returns Pending exactly when the
\* outbound buffer is full and the destination is addressable; an operation is
\* suspended exactly after a poll that returned Pending; new, bind, close, drop
\* and the status queries return at once and suspend nothing.
C17_SuspensionPoints ==
    [][ /\ last'.op = "recv" =>
              (last'.res = "Pending" <=> sockets[last'.h].rx = <<>>)
        /\ last'.op = "send" =>
              (last'.res = "Pending" <=>
                  (Len(sockets[last'.h].tx) = TxCap /\ last'.d.ep # Unspecified))
        /\ last'.op \in {"recv", "send"} =>
              /\ (futs'[last'.a][last'.f].kind = last'.op <=> last'.res = "Pending")
              /\ (futs'[last'.a][last'.f] = IdleFut <=> last'.res # "Pending")
        /\ last'.op \in {"new", "bind", "close", "drop", "query"} =>
              /\ last'.res # "Pending"
              /\ futs' = futs
      ]_vars

\* recv_from completed on a poll after one that suspended it: a datagram had
\* been queued in between.
C17_Witness ==
    /\ last.op = "recv" /\ last.res = "Ok" /\ ~last.first
    /\ \E b \in Adapters : \E f \in DOMAIN futs[b] : futs[b][f].kind = "send"

\* C18: a bind that returns an error leaves the pool as it was (the socket's
\* endpoint, open flag and both buffers included), whether it was called with a
\* fixed port or with port zero, and signals the wake notification all the same;
\* bind fails exactly when the socket is open.
C18_FailedBindChangesNothing ==
    [][ last'.op = "bind" =>
          /\ last'.res # "Ok" =>
                /\ last'.res \in {"InvalidState", "NoRoute"}
                /\ sockets' = sockets
                /\ handle' = handle
                /\ last'.wake
          /\ last'.res # "Ok" <=> IsOpen(sockets[last'.h])
      ]_vars

\* bind with port zero failed on an open socket that has datagrams queued in both
\* directions; the port resolved for it is not the one the socket holds.
C18_Witness ==
    /\ last.op = "bind" /\ last.zero /\ last.res = "InvalidState" /\ last.wake
    /\ sockets[last.h].port # last.port
    /\ sockets[last.h].rx # <<>> /\ sockets[last.h].tx # <<>>

\* C19: with several recv_from operations pending on one socket, every poll that
\* completes takes the datagram at the head of the inbound buffer, removes that
\* one and no other, and completes its own operation only; an operation pending
\* on the socket ends only by completing with a datagram or by being abandoned;
\* and a queued datagram leaves the buffer only in a completed recv_from or when
\* the socket is closed or dropped, which needs every operation to have ended.
C19_EachDatagramOnce ==
    [][ /\ (last'.op = "recv" /\ last'.res = "Ok") =>
              /\ sockets[last'.h].rx # <<>>
              /\ last'.d = Head(sockets[last'.h].rx)
              /\ Len(sockets'[last'.h].rx) = Len(sockets[last'.h].rx) - 1
              /\ \A i \in 1..Len(sockets'[last'.h].rx) :
                    sockets'[last'.h].rx[i] = sockets[last'.h].rx[i + 1]
              /\ \A f \in DOMAIN futs[last'.a] \ {last'.f} :
                    futs'[last'.a][f] = futs[last'.a][f]
        /\ \A a \in Adapters : \A f \in DOMAIN futs[a] :
              (futs[a][f].kind = "recv" /\ futs'[a][f].kind # "recv") =>
                 /\ last'.a = a /\ last'.f = f
                 /\ \/ last'.op = "recv" /\ last'.res = "Ok"
                    \/ last'.op = "abandon"
        /\ \A h \in Handles :
              Len(sockets'[h].rx) < Len(sockets[h].rx) =>
                 /\ last'.h = h
                 /\ \/ last'.op = "recv" /\ last'.res = "Ok"
                    \/ /\ last'.op \in {"close", "drop"}
                       /\ \A f \in DOMAIN futs[last'.a] : futs[last'.a][f].kind = "idle"
      ]_vars

\* Two recv_from operations were pending on the socket and two datagrams were
\* queued: one operation completed with the older datagram; the other operation
\* is still pending and the newer datagram is still queued.
C19_Witness ==
    /\ last.op = "recv" /\ last.res = "Ok" /\ ~last.first
    /\ \E f \in DOMAIN futs[last.a] : f # last.f /\ futs[last.a][f].kind = "recv"
    /\ sockets[last.h].rx # <<>>
    /\ sockets[last.h].rx[1] # last.d

====
